---- MODULE Spec2Model ----
(***************************************************************************)
(* Model of etl/load.py: load(table_name, df, ...), the batched retrying   *)
(* bulk writer with client-side primary-key / foreign-key checks.          *)
(*                                                                         *)
(* One behaviour is one call of load().  The store (Supabase) and the      *)
(* audit directory are the environment: every store request and every      *)
(* audit file operation chooses its outcome nondeterministically.          *)
(***************************************************************************)
EXTENDS Integers, Sequences, FiniteSets, TLC

\* ------------------------------------------------------------------ bounds
\* Longest DataFrame of the enumerated (small) inputs.
MaxLen == 3

\* --------------------------------------------------------- program constants
BATCH_SIZE == 100
MAX_RETRIES == 3
RETRY_DELAY_BASE == 2
CHUNK_SIZE == 500
\* time.sleep(0.5) between batches, in milliseconds
PAUSE_MS == 500

\* ------------------------------------------------------------------ values
\* A cell value is tagged with its Python type; v is its content.
\* BoolV(1) is True, BoolV(0) is False; InfV(1) is +inf, InfV(0) is -inf.
StrV(n) == [t |-> "str", v |-> n]
IntV(n) == [t |-> "int", v |-> n]
FloatV(n) == [t |-> "float", v |-> n]
BoolV(b) == [t |-> "bool", v |-> b]
InfV(s) == [t |-> "inf", v |-> s]
DatetimeV(n) == [t |-> "datetime", v |-> n]
DecimalV(n) == [t |-> "Decimal", v |-> n]
NaN == [t |-> "nan", v |-> 0]
None == [t |-> "None", v |-> 0]
\* A numpy array and a Python list: v is the sequence of the elements.
NdarrayV(s) == [t |-> "ndarray", v |-> s]
ListV(s) == [t |-> "list", v |-> s]

\* pd.isna(v): None and NaN are missing values.
IsNa(v) == v.t \in {"nan", "None"}

\* pk_column=None / required_columns=None
NoColumn == "None"
NoList == <<NoColumn>>

Min(a, b) == IF a < b THEN a ELSE b

RECURSIVE Pow(_, _)
Pow(b, e) == IF e = 0 THEN 1 ELSE b * Pow(b, e - 1)

Range(s) == {s[i] : i \in 1..Len(s)}

\* ------------------------------------------------------------------ tables
Tables == {"estudiantes", "matriculas", "pagos"}

\* Columns of the DataFrame the transforms produce for each table: the key
\* columns load() looks at, and one further column standing for the rest of
\* the row (it carries the row's position in the input).
RestColumn(tbl) ==
    CASE tbl = "estudiantes" -> "nombres"
      [] tbl = "matriculas" -> "num_cursos"
      [] tbl = "pagos" -> "monto_pago"

Columns(tbl) ==
    CASE tbl = "estudiantes" -> {"codigo_estudiante", "nombres"}
      [] tbl = "matriculas" -> {"codigo_matricula", "codigo_estudiante", "num_cursos"}
      [] tbl = "pagos" -> {"codigo_matricula", "fecha_pago", "monto_pago"}

REQUIRED_COLUMNS_BY_TABLE(tbl) ==
    IF tbl = "pagos" THEN <<"fecha_pago">> ELSE <<>>

\* -------------------------------------------------------------- DataFrames
\* A DataFrame is a sequence of rows; a row is a function column -> value.

\* The rows of df at the positions idx, in their order in df.
Pick(df, idx) ==
    LET kept == SelectSeq([n \in 1..Len(df) |-> n], LAMBDA n : n \in idx)
    IN [m \in 1..Len(kept) |-> df[kept[m]]]

\* Variant of DropDuplicatesLast with keep="first": a row stays iff no earlier
\* row has its value in col.
DropDuplicatesFirst(df, col) ==
    Pick(df, {n \in 1..Len(df) : \A j \in 1..(n - 1) : df[j][col] # df[n][col]})

\* df.drop_duplicates(subset=[col], keep="last").reset_index(drop=True): a row
\* stays iff no later row has its value in col.
DropDuplicatesLast(df, col) ==
    Pick(df, {n \in 1..Len(df) : \A j \in (n + 1)..Len(df) : df[j][col] # df[n][col]})

\* Variant of HasDuplicates that compares neighbouring rows only.
HasAdjacentDuplicates(df, col) ==
    \E n \in 1..(Len(df) - 1) : df[n][col] = df[n + 1][col]

\* df.duplicated(subset=[col], keep=False).any()
HasDuplicates(df, col) ==
    \E n, j \in 1..Len(df) : n # j /\ df[n][col] = df[j][col]

\* df[col].dropna().unique().tolist(): the distinct non-null values, in order
\* of first appearance.
UniqueKeys(df, col) ==
    LET firsts == Pick(df, {n \in 1..Len(df) :
                               /\ ~IsNa(df[n][col])
                               /\ \A j \in 1..(n - 1) : df[j][col] # df[n][col]})
    IN [m \in 1..Len(firsts) |-> firsts[m][col]]

\* ---------------------------------------------------------------- sanitizer
\* _sanitize_value(v), branch by branch in the order of the code.  bool is a
\* subclass of int in Python, so the int branch is the one a bool takes.
\* pd.isna of an array or a list is an array of booleans: its truth value is
\* that of its element when there is exactly one and raises otherwise, which
\* the except of line 207 passes over.  v.item() unwraps an array of one
\* element and raises on any other array (passed over, line 214); an array is
\* then returned as v.tolist(), its elements as they are.
_sanitize_value(v) ==
    LET one == v.t \in {"ndarray", "list"} /\ Len(v.v) = 1
        isna == IF v.t \in {"ndarray", "list"} THEN one /\ IsNa(v.v[1]) ELSE IsNa(v)
        x == IF v.t = "ndarray" /\ one THEN v.v[1] ELSE v
    IN IF isna THEN None
       ELSE IF x.t = "ndarray" THEN ListV(x.v)
       ELSE IF x.t = "inf" THEN None
       ELSE IF x.t = "float" THEN x
       ELSE IF x.t \in {"int", "bool"} THEN IntV(x.v)
       ELSE IF x.t = "datetime" THEN StrV(x.v)
       ELSE IF x.t = "Decimal" THEN FloatV(x.v)
       ELSE x

\* {k: _sanitize_value(v) for k, v in rec.items()}
SanitizeRecord(rec) == [k \in DOMAIN rec |-> _sanitize_value(rec[k])]

\* [{k: _sanitize_value(v) ...} for rec in data]
SanitizeAll(data) == [n \in 1..Len(data) |-> SanitizeRecord(data[n])]

\* ------------------------------------------------------------------- store
\* The column the database keys a table on (what upsert resolves conflicts
\* on).  pagos has a generated id that is not part of the payload.
TablePK(tbl) ==
    CASE tbl = "estudiantes" -> "codigo_estudiante"
      [] tbl = "matriculas" -> "codigo_matricula"
      [] tbl = "pagos" -> NoColumn

\* Variant of SelectIn that answers from a snapshot of the table taken before
\* any call wrote to it.
SelectInSnapshot(rows, col, chunk) ==
    LET hit(n) == n <= 1 /\ rows[n][col] \in Range(chunk)
        part == SelectSeq([n \in 1..Len(rows) |-> n], hit)
    IN [n \in 1..Len(part) |-> rows[part[n]][col]]

\* supabase.table(tbl).select(col).in_(col, chunk).execute().data
SelectIn(rows, col, chunk) ==
    LET hit(row) == row[col] \in Range(chunk)
        part == SelectSeq(rows, hit)
    IN [n \in 1..Len(part) |-> part[n][col]]

\* supabase.table(tbl).insert(payload).execute(), when it succeeds
StoreInsert(rows, payload) == rows \o payload

\* supabase.table(tbl).upsert(payload).execute(), when it succeeds: a record
\* whose key is already stored replaces the stored row, any other is added.
StoreUpsert(rows, payload, key) ==
    IF key = NoColumn THEN rows \o payload
    ELSE LET stored == {rows[n][key] : n \in 1..Len(rows)}
             new(rec) == rec[key] \notin stored
             update(row) ==
                 IF \E n \in 1..Len(payload) : payload[n][key] = row[key]
                 THEN payload[CHOOSE n \in 1..Len(payload) : payload[n][key] = row[key]]
                 ELSE row
         IN [n \in 1..Len(rows) |-> update(rows[n])] \o SelectSeq(payload, new)

\* ------------------------------------------------------------------- state
VARIABLES
    table_name, df, abort_on_error, pk_column, dedupe_df,
    drop_missing_students, drop_missing_matriculas, required_columns, upsert,
    df_input,       \* the DataFrame as the caller passed it
    pc,             \* where the call is
    i,              \* index of the running loop (chunks, batches, records)
    attempt,        \* attempt of _execute_with_retry
    found,          \* existing_vals / existing_students / existing_mats
    data,           \* df.to_dict(orient="records")
    cleaned_data,   \* the sanitized records
    store,          \* table -> rows of the remote store
    calls,          \* every store request, audit file operation and sleep, in order
    log,            \* exceptions raised inside load and swallowed by a handler
    err,            \* the exception load raised to its caller
    other_pc,       \* where a second, concurrent call of load is ("idle": there is none)
    other_df,       \* the DataFrame of the second call
    other_calls,    \* the store requests of the second call, in order
    pipeline_pc,    \* the table run_pipeline is at ("idle": load was called directly)
    loads           \* the calls of load() run_pipeline has issued, in order

params == <<table_name, abort_on_error, pk_column, dedupe_df, drop_missing_students,
            drop_missing_matriculas, required_columns, upsert, df_input>>
vars == <<table_name, df, abort_on_error, pk_column, dedupe_df,
          drop_missing_students, drop_missing_matriculas, required_columns, upsert,
          df_input, pc, i, attempt, found, data, cleaned_data, store, calls, log, err,
          other_pc, other_df, other_calls, pipeline_pc, loads>>
other == <<other_pc, other_df, other_calls>>
run == <<pipeline_pc, loads>>

\* One entry of calls: kind is "select", "insert", "upsert", "to_csv",
\* "makedirs" or "sleep"; payload is what was sent (a chunk of keys, a batch of
\* records, the rows of an audit file); result is "ok" or the error; resp is
\* the data a select returned; arg is the column of a select, the batch number
\* of a batch write (0 for a single-record insert), the milliseconds of a sleep.
Call(kind, tbl, payload, result, resp, arg) ==
    [kind |-> kind, table |-> tbl, payload |-> payload, result |-> result,
     resp |-> resp, arg |-> arg]

\* "pk_column" is given and is a column of df
PkUsable == pk_column # NoColumn /\ pk_column \in Columns(table_name)

\* cols_required (line 137)
ColsRequired ==
    IF required_columns # NoList THEN required_columns
    ELSE REQUIRED_COLUMNS_BY_TABLE(table_name)

\* The stages that follow the primary-key block, for a DataFrame d.
StudentsCheckApplies(d) ==
    /\ table_name = "matriculas"
    /\ "codigo_estudiante" \in Columns(table_name)
    /\ UniqueKeys(d, "codigo_estudiante") # <<>>

PagosCheckApplies(d) ==
    /\ table_name = "pagos"
    /\ "codigo_matricula" \in Columns(table_name)
    /\ UniqueKeys(d, "codigo_matricula") # <<>>

AfterPkCheck(d) == IF StudentsCheckApplies(d) THEN "fk_students" ELSE "required"
AfterRequired(d) == IF PagosCheckApplies(d) THEN "fk_pagos" ELSE "SANITIZE"

\* ------------------------------------------------------------------ inputs
\* Key 0 is in every table of the store when the call starts, key 1 is not.
KeyCells == {StrV(0), StrV(1), NaN}

RowCells(tbl) ==
    CASE tbl = "estudiantes" -> [codigo_estudiante : KeyCells]
      [] tbl = "matriculas" -> [codigo_matricula : {StrV(0), StrV(1)}, codigo_estudiante : KeyCells]
      [] tbl = "pagos" -> [codigo_matricula : KeyCells, fecha_pago : {StrV(0), NaN}]

\* The rows of a frame: the n-th row carries n in its rest column.
MakeRow(tbl, cells, n) ==
    [c \in Columns(tbl) |-> IF c = RestColumn(tbl) THEN IntV(n) ELSE cells[c]]

\* Every frame of at most maxlen rows.
SmallFrames(tbl, maxlen) ==
    UNION {{[n \in 1..len |-> MakeRow(tbl, f[n], n)] : f \in [1..len -> RowCells(tbl)]}
           : len \in 0..maxlen}

\* A frame of len estudiantes with the pairwise distinct keys 1..len.
DistinctFrame(len) ==
    [n \in 1..len |-> MakeRow("estudiantes", [codigo_estudiante |-> StrV(n)], n)]

\* Frame sizes that need more than one batch.
BigSizes == {BATCH_SIZE + 1}

\* Frame sizes at the boundaries of the batching: one full batch, and two
\* full batches with half a batch left over.
BatchingSizes == {BATCH_SIZE, 2 * BATCH_SIZE + BATCH_SIZE \div 2}

\* Values of every kind _sanitize_value tells apart, arrays and lists of one
\* and of two elements included.
SampleValues ==
    {None, NaN, InfV(1), InfV(0), FloatV(3), BoolV(1), BoolV(0), IntV(7),
     DatetimeV(1), DecimalV(2), StrV(5),
     NdarrayV(<<FloatV(1), NaN>>), NdarrayV(<<InfV(1), FloatV(2)>>),
     NdarrayV(<<FloatV(1), FloatV(2)>>), NdarrayV(<<NaN>>), NdarrayV(<<InfV(0)>>),
     NdarrayV(<<FloatV(4)>>), ListV(<<FloatV(1), NaN>>), ListV(<<NaN>>)}

\* A frame of one pago whose monto_pago is v.
ValueFrame(v) ==
    <<[codigo_matricula |-> StrV(0), fecha_pago |-> StrV(0), monto_pago |-> v]>>

InitialStore ==
    [tbl \in Tables |-> <<MakeRow(tbl, [c \in Columns(tbl) |-> StrV(0)], 0)>>]

\* The calls of load() the model starts from.  Calls that exercise the
\* integrity checks take the write flags' defaults; calls that exercise the
\* writer or the batching take frames of distinct keys.  The frames of the two tables with a
\* foreign key, whose rows have two free columns, are one row shorter.
Flags(tbl, frame, abort, pk, dedupe, dropS, dropM, req, ups) ==
    [table_name |-> tbl, df |-> frame, abort_on_error |-> abort, pk_column |-> pk,
     dedupe_df |-> dedupe, drop_missing_students |-> dropS,
     drop_missing_matriculas |-> dropM, required_columns |-> req, upsert |-> ups]

\* <<pk_column, dedupe_df>>: dedupe_df is read only with a usable pk_column.
PkChoices(col) == {<<NoColumn, TRUE>>, <<col, TRUE>>, <<col, FALSE>>}

EstudiantesCalls ==
    {Flags("estudiantes", f, TRUE, pk[1], pk[2], FALSE, FALSE, req, FALSE) :
        f \in SmallFrames("estudiantes", MaxLen),
        pk \in PkChoices("codigo_estudiante") \cup {<<"codigo_curso", TRUE>>},
        req \in {NoList, <<"codigo_estudiante">>, <<"fecha_pago">>}}

MatriculasCalls ==
    {Flags("matriculas", f, TRUE, pk[1], pk[2], dropS, FALSE, NoList, FALSE) :
        f \in SmallFrames("matriculas", MaxLen - 1),
        pk \in PkChoices("codigo_matricula"),
        dropS \in BOOLEAN}

PagosCalls ==
    {Flags("pagos", f, TRUE, pk[1], pk[2], FALSE, dropM, NoList, FALSE) :
        f \in SmallFrames("pagos", MaxLen - 1),
        pk \in PkChoices("codigo_matricula"),
        dropM \in BOOLEAN}

WriterCalls ==
    {Flags("estudiantes", DistinctFrame(len), abort, "codigo_estudiante", TRUE,
           FALSE, FALSE, NoList, ups) :
        len \in (0..MaxLen) \cup BigSizes,
        abort \in BOOLEAN,
        ups \in BOOLEAN}

\* Calls that exercise the batching alone: abort_on_error keeps its default.
BatchingCalls ==
    {Flags("estudiantes", DistinctFrame(len), TRUE, "codigo_estudiante", TRUE,
           FALSE, FALSE, NoList, ups) :
        len \in BatchingSizes,
        ups \in BOOLEAN}

\* Calls that exercise the sanitizer.
SanitizerCalls ==
    {Flags("pagos", ValueFrame(v), TRUE, NoColumn, TRUE, FALSE, FALSE, NoList, FALSE) :
        v \in SampleValues}

LoadCalls ==
    EstudiantesCalls \cup MatriculasCalls \cup PagosCalls \cup WriterCalls
        \cup BatchingCalls \cup SanitizerCalls

LoadInit(callSet) ==
    /\ \E c \in callSet :
        /\ table_name = c.table_name
        /\ df = c.df
        /\ df_input = c.df
        /\ abort_on_error = c.abort_on_error
        /\ pk_column = c.pk_column
        /\ dedupe_df = c.dedupe_df
        /\ drop_missing_students = c.drop_missing_students
        /\ drop_missing_matriculas = c.drop_missing_matriculas
        /\ required_columns = c.required_columns
        /\ upsert = c.upsert
    /\ pc = "PENDING"
    /\ i = 0
    /\ attempt = 0
    /\ found = <<>>
    /\ data = <<>>
    /\ cleaned_data = <<>>
    /\ store = InitialStore
    /\ calls = <<>>
    /\ log = <<>>
    /\ err = "none"

\* No second call runs next to this one.
OtherIdle ==
    /\ other_pc = "idle"
    /\ other_df = <<>>
    /\ other_calls = <<>>

\* load() is called directly, not from run_pipeline.
PipelineIdle ==
    /\ pipeline_pc = "idle"
    /\ loads = <<>>

InitFrom(callSet) == LoadInit(callSet) /\ OtherIdle /\ PipelineIdle

Init == InitFrom(LoadCalls)

\* ------------------------------------------------- primary-key block (39-60)
\* Lines 39-45: load is entered and comes to its integrity checks.
Start ==
    /\ pc = "PENDING"
    /\ pc' = "dedupe"
    /\ UNCHANGED <<params, other, run, df, i, attempt, found, data, cleaned_data, store, calls, log, err>>

\* Lines 50-58: duplicates in the frame with dedupe_df=False raise ValueError
\* to the caller.
RaiseDuplicates ==
    /\ pc = "dedupe"
    /\ PkUsable
    /\ HasDuplicates(df, pk_column)
    /\ ~dedupe_df
    /\ pc' = "FAILED"
    /\ err' = "ValueError: duplicados en DataFrame"
    /\ UNCHANGED <<params, other, run, df, i, attempt, found, data, cleaned_data, store, calls, log>>

\* Lines 50-60: drop the duplicates (keep="last") and collect the keys.
CheckDuplicates ==
    /\ pc = "dedupe"
    /\ PkUsable
    /\ ~(HasDuplicates(df, pk_column) /\ ~dedupe_df)
    /\ LET d == IF HasDuplicates(df, pk_column)
                THEN DropDuplicatesLast(df, pk_column) ELSE df
       IN /\ df' = d
          /\ pc' = IF UniqueKeys(d, pk_column) # <<>> THEN "pk_exists" ELSE AfterPkCheck(d)
    /\ i' = 0
    /\ found' = <<>>
    /\ UNCHANGED <<params, other, run, attempt, data, cleaned_data, store, calls, log, err>>

\* Variant of SkipPkBlock that still goes through the check of the students
\* when there is no usable pk_column.
SkipPkBlockChecksStudents ==
    /\ pc = "dedupe"
    /\ ~PkUsable
    /\ pc' = AfterPkCheck(df)
    /\ UNCHANGED <<params, other, run, df, i, attempt, found, data, cleaned_data, store, calls, log, err>>

\* Lines 45-47: no pk_column, or one that is no column of df: the whole block
\* (duplicates, existing keys, matriculas -> estudiantes) is skipped.
SkipPkBlock ==
    /\ pc = "dedupe"
    /\ ~PkUsable
    /\ pc' = "required"
    /\ UNCHANGED <<params, other, run, df, i, attempt, found, data, cleaned_data, store, calls, log, err>>

\* The chunk keys[i:i+CHUNK_SIZE] of a key list.
Chunk(keys) == SubSeq(keys, i + 1, Min(i + CHUNK_SIZE, Len(keys)))

\* ------------------------------------------------ existing-key check (63-85)
\* One select of the loop answers.  After the last chunk the verdict of lines
\* 78-83 is taken: the ValueError raised there is inside the try of line 63
\* and is caught by the handler of line 84, which logs it and goes on.
SelectExistingOk ==
    /\ pc = "pk_exists"
    /\ LET keys == UniqueKeys(df, pk_column)
           part == SelectIn(store[table_name], pk_column, Chunk(keys))
           existing_vals == found \o part
       IN /\ calls' = Append(calls, Call("select", table_name, Chunk(keys), "ok", part, pk_column))
          /\ IF i + CHUNK_SIZE < Len(keys)
             THEN /\ i' = i + CHUNK_SIZE
                  /\ found' = existing_vals
                  /\ UNCHANGED <<pc, log>>
             ELSE /\ i' = 0
                  /\ found' = <<>>
                  /\ pc' = AfterPkCheck(df)
                  /\ log' = IF existing_vals # <<>>
                            THEN Append(log, "ValueError: claves ya existentes")
                            ELSE log
    /\ UNCHANGED <<params, other, run, df, attempt, data, cleaned_data, store, err>>

\* The select raises: the handler of line 84 logs it and goes on.
SelectExistingError ==
    /\ pc = "pk_exists"
    /\ LET keys == UniqueKeys(df, pk_column)
       IN calls' = Append(calls, Call("select", table_name, Chunk(keys), "error", <<>>, pk_column))
    /\ log' = Append(log, "APIError: select")
    /\ pc' = AfterPkCheck(df)
    /\ i' = 0
    /\ found' = <<>>
    /\ UNCHANGED <<params, other, run, df, attempt, data, cleaned_data, store, err>>

\* ---------------------------------------------------- audit files (113-121)
\* os.makedirs + to_csv of one audit artifact.
AuditResults == {"ok", "makedirs failed", "to_csv failed"}

AuditCalls(name, rows, res) ==
    IF res = "makedirs failed"
    THEN <<Call("makedirs", name, <<>>, "error", <<>>, 0)>>
    ELSE <<Call("makedirs", name, <<>>, "ok", <<>>, 0),
           Call("to_csv", name, rows, IF res = "ok" THEN "ok" ELSE "error", <<>>, 0)>>

\* ------------------------------------------ foreign-key checks (88-134, 157-198)
\* Variant of ForeignKeyOk that drops the rows even when the audit file could
\* not be written.
ForeignKeyOkDropsAnyway(parent, col, drop, file, after) ==
    \E res \in AuditResults :
        LET keys == UniqueKeys(df, col)
            part == SelectIn(store[parent], col, Chunk(keys))
            existing == found \o part
            missing == Range(keys) \ Range(existing)
            mask_missing(row) == row[col] \in missing
            kept(row) == ~mask_missing(row)
            sel == Call("select", parent, Chunk(keys), "ok", part, col)
        IN IF i + CHUNK_SIZE < Len(keys)
           THEN /\ res = "ok"
                /\ calls' = Append(calls, sel)
                /\ found' = existing
                /\ i' = i + CHUNK_SIZE
                /\ UNCHANGED <<pc, df, log, err>>
           ELSE /\ found' = <<>>
                /\ i' = 0
                /\ UNCHANGED err
                /\ IF missing = {}
                   THEN /\ res = "ok"
                        /\ calls' = Append(calls, sel)
                        /\ pc' = after
                        /\ UNCHANGED <<df, log>>
                   ELSE IF ~drop
                   THEN /\ res = "ok"
                        /\ calls' = Append(calls, sel)
                        /\ log' = Append(log, "ValueError: faltan referencias")
                        /\ pc' = after
                        /\ UNCHANGED df
                   ELSE /\ calls' = Append(calls, sel)
                                    \o AuditCalls(file, SelectSeq(df, mask_missing), res)
                        /\ IF res = "ok"
                           THEN /\ df' = SelectSeq(df, kept)
                                /\ pc' = after
                                /\ UNCHANGED log
                           ELSE /\ log' = Append(log, "OSError: audit")
                                /\ pc' = after
                                /\ df' = SelectSeq(df, kept)

\* The two checks are the same code on different names: the select of one
\* chunk answers; after the last chunk the missing references are computed
\* and, if there are any, either the rows are written to an audit file and
\* dropped (drop flag) or ValueError is raised.  Every exception raised inside,
\* the ValueError and a failed audit write included, is caught by the outer
\* handler (line 133 / 197), which logs it and goes on with df as it is; after
\* is the stage that follows the check.
ForeignKeyOk(parent, col, drop, file, after) ==
    \E res \in AuditResults :
        LET keys == UniqueKeys(df, col)
            part == SelectIn(store[parent], col, Chunk(keys))
            existing == found \o part
            missing == Range(keys) \ Range(existing)
            mask_missing(row) == row[col] \in missing
            kept(row) == ~mask_missing(row)
            sel == Call("select", parent, Chunk(keys), "ok", part, col)
        IN IF i + CHUNK_SIZE < Len(keys)
           THEN /\ res = "ok"
                /\ calls' = Append(calls, sel)
                /\ found' = existing
                /\ i' = i + CHUNK_SIZE
                /\ UNCHANGED <<pc, df, log, err>>
           ELSE /\ found' = <<>>
                /\ i' = 0
                /\ UNCHANGED err
                /\ IF missing = {}
                   THEN /\ res = "ok"
                        /\ calls' = Append(calls, sel)
                        /\ pc' = after
                        /\ UNCHANGED <<df, log>>
                   ELSE IF ~drop
                   THEN /\ res = "ok"
                        /\ calls' = Append(calls, sel)
                        /\ log' = Append(log, "ValueError: faltan referencias")
                        /\ pc' = after
                        /\ UNCHANGED df
                   ELSE /\ calls' = Append(calls, sel)
                                    \o AuditCalls(file, SelectSeq(df, mask_missing), res)
                        /\ IF res = "ok"
                           THEN /\ df' = SelectSeq(df, kept)
                                /\ pc' = after
                                /\ UNCHANGED log
                           ELSE /\ log' = Append(log, "OSError: audit")
                                /\ pc' = after
                                /\ UNCHANGED df

\* Variant of ForeignKeyError that raises the error of the read to the caller.
ForeignKeyErrorRaised(parent, col, after) ==
    /\ calls' = Append(calls, Call("select", parent, Chunk(UniqueKeys(df, col)), "error", <<>>, col))
    /\ err' = "APIError: select"
    /\ pc' = "FAILED"
    /\ i' = 0
    /\ found' = <<>>
    /\ UNCHANGED <<df, log>>

ForeignKeyError(parent, col, after) ==
    /\ calls' = Append(calls, Call("select", parent, Chunk(UniqueKeys(df, col)), "error", <<>>, col))
    /\ log' = Append(log, "APIError: select")
    /\ pc' = after
    /\ i' = 0
    /\ found' = <<>>
    /\ UNCHANGED <<df, err>>

\* matriculas.codigo_estudiante -> estudiantes.codigo_estudiante (lines 88-134)
SelectStudentsOk ==
    /\ pc = "fk_students"
    /\ ForeignKeyOk("estudiantes", "codigo_estudiante", drop_missing_students,
                    "matriculas_missing_students", "required")
    /\ UNCHANGED <<params, other, run, attempt, data, cleaned_data, store>>

SelectStudentsError ==
    /\ pc = "fk_students"
    /\ ForeignKeyError("estudiantes", "codigo_estudiante", "required")
    /\ UNCHANGED <<params, other, run, attempt, data, cleaned_data, store>>

\* pagos.codigo_matricula -> matriculas.codigo_matricula (lines 157-198)
SelectMatriculasOk ==
    /\ pc = "fk_pagos"
    /\ ForeignKeyOk("matriculas", "codigo_matricula", drop_missing_matriculas,
                    "pagos_missing_matriculas", "SANITIZE")
    /\ UNCHANGED <<params, other, run, attempt, data, cleaned_data, store>>

SelectMatriculasError ==
    /\ pc = "fk_pagos"
    /\ ForeignKeyError("matriculas", "codigo_matricula", "SANITIZE")
    /\ UNCHANGED <<params, other, run, attempt, data, cleaned_data, store>>

\* ------------------------------------------- required columns (137-154)
HasNullRequired(row) == \E n \in 1..Len(ColsRequired) : IsNa(row[ColsRequired[n]])

\* Variant of RequiredColumnsPass that does not look for nulls.
RequiredColumnsPassUnchecked ==
    /\ pc = "required"
    /\ Range(ColsRequired) \subseteq Columns(table_name)
    /\ pc' = AfterRequired(df)
    /\ UNCHANGED <<params, other, run, df, i, attempt, found, data, cleaned_data, store, calls, log, err>>

\* No required column, or no row with a null in one.
RequiredColumnsPass ==
    /\ pc = "required"
    /\ Range(ColsRequired) \subseteq Columns(table_name)
    /\ \A n \in 1..Len(df) : ~HasNullRequired(df[n])
    /\ pc' = AfterRequired(df)
    /\ UNCHANGED <<params, other, run, df, i, attempt, found, data, cleaned_data, store, calls, log, err>>

\* df[cols_required] with a name that is no column of df raises KeyError
\* (line 139), outside every handler.
RequiredColumnsKeyError ==
    /\ pc = "required"
    /\ ~(Range(ColsRequired) \subseteq Columns(table_name))
    /\ pc' = "FAILED"
    /\ err' = "KeyError"
    /\ UNCHANGED <<params, other, run, df, i, attempt, found, data, cleaned_data, store, calls, log>>

\* Lines 140-154: the rows with a null are written to an audit file and
\* dropped.  os.makedirs (line 144) is outside the try of line 147: its failure
\* is raised to the caller; a failure of to_csv is logged and the rows are
\* dropped all the same.
RequiredColumnsDrop ==
    /\ pc = "required"
    /\ Range(ColsRequired) \subseteq Columns(table_name)
    /\ \E n \in 1..Len(df) : HasNullRequired(df[n])
    /\ \E res \in AuditResults :
        LET valid(row) == ~HasNullRequired(row)
            file == "removed_nulls"
        IN /\ calls' = calls \o AuditCalls(file, SelectSeq(df, HasNullRequired), res)
           /\ IF res = "makedirs failed"
              THEN /\ pc' = "FAILED"
                   /\ err' = "OSError: makedirs"
                   /\ UNCHANGED <<df, log>>
              ELSE /\ df' = SelectSeq(df, valid)
                   /\ pc' = AfterRequired(SelectSeq(df, valid))
                   /\ log' = IF res = "ok" THEN log ELSE Append(log, "OSError: to_csv")
                   /\ UNCHANGED err
    /\ UNCHANGED <<params, other, run, i, attempt, found, data, cleaned_data, store>>

\* ------------------------------------------------------ sanitize (200-257)
\* data = df.to_dict(orient="records"); cleaned_data = the sanitized records.
Sanitize ==
    /\ pc = "SANITIZE"
    /\ data' = df
    /\ cleaned_data' = SanitizeAll(df)
    /\ i' = 0
    /\ attempt' = 0
    /\ pc' = "BATCH_WRITE"
    /\ UNCHANGED <<params, other, run, df, found, store, calls, log, err>>

\* ------------------------------------------------- batch writer (259-334)
\* Errors a store write can raise; _is_transient_error looks for the patterns
\* of lines 268-275 in the message.
StoreErrors == {"503 Service Unavailable", "permission denied"}

\* Variant of _is_transient_error that takes every error for transient.
_is_transient_error_any(error) == TRUE

_is_transient_error(error) == error \in {"503 Service Unavailable"}

total_records == Len(cleaned_data)
\* math.ceil(total_records / BATCH_SIZE)
total_batches == (total_records + BATCH_SIZE - 1) \div BATCH_SIZE
\* Variant of batch that takes one record more than BATCH_SIZE.
batch_overlapping == SubSeq(cleaned_data, i + 1, Min(i + BATCH_SIZE + 1, total_records))

batch == SubSeq(cleaned_data, i + 1, Min(i + BATCH_SIZE, total_records))
batch_num == (i \div BATCH_SIZE) + 1
\* Variant of operation that always inserts.
operation_insert == "insert"

operation == IF upsert THEN "upsert" ELSE "insert"

\* What the store holds after a successful write of payload.
Written(op, payload) ==
    [store EXCEPT ![table_name] =
        IF op = "upsert" THEN StoreUpsert(@, payload, TablePK(table_name))
        ELSE StoreInsert(@, payload)]

\* Variant of BatchFailed that swallows the error: load returns.
BatchFailedSwallowed(error) ==
    /\ pc' = "DONE"
    /\ UNCHANGED <<i, err>>

\* Variant of BatchFailed that never looks at abort_on_error.
BatchFailedAlwaysFallback(error) ==
    /\ pc' = "RECORD_BY_RECORD"
    /\ i' = 0
    /\ UNCHANGED err

\* Variant of BatchFailed whose fallback starts at the first record of the
\* failed batch.
BatchFailedResumes(error) ==
    IF abort_on_error
    THEN /\ pc' = "FAILED"
         /\ err' = error
         /\ UNCHANGED i
    ELSE /\ pc' = "RECORD_BY_RECORD"
         /\ UNCHANGED <<i, err>>

\* Lines 327-334: the except of the batch loop.  abort_on_error re-raises;
\* otherwise the call goes on to the record-by-record loop over data.
BatchFailed(error) ==
    IF abort_on_error
    THEN /\ pc' = "FAILED"
         /\ err' = error
         /\ UNCHANGED i
    ELSE /\ pc' = "RECORD_BY_RECORD"
         /\ i' = 0
         /\ UNCHANGED err

\* Variant of RetryDelay whose exponent is the 0-based attempt: 1 s, 2 s.
RetryDelayFromZero(n) == Pow(RETRY_DELAY_BASE, n)

\* The delay before the next attempt, time.sleep(RETRY_DELAY_BASE ** (attempt + 1))
RetryDelay(n) == Pow(RETRY_DELAY_BASE, n + 1)

\* Lines 311, 324-325: with no record the loop has no iteration and load
\* returns.
BatchLoopEmpty ==
    /\ pc = "BATCH_WRITE"
    /\ total_records = 0
    /\ pc' = "DONE"
    /\ UNCHANGED <<params, other, run, df, i, attempt, found, data, cleaned_data, store, calls, log, err>>

\* Variant of BatchWriteOk that keeps the attempt counter for the next batch.
BatchWriteOkKeepsCounter ==
    /\ pc = "BATCH_WRITE"
    /\ total_records > 0
    /\ store' = Written(operation, batch)
    /\ calls' = calls \o <<Call(operation, table_name, batch, "ok", <<>>, batch_num)>>
                      \o (IF batch_num < total_batches
                          THEN <<Call("sleep", "pause", <<>>, "ok", <<>>, PAUSE_MS)>>
                          ELSE <<>>)
    /\ IF batch_num < total_batches
       THEN /\ i' = i + BATCH_SIZE
            /\ UNCHANGED pc
       ELSE /\ pc' = "DONE"
            /\ UNCHANGED i
    /\ attempt' = attempt
    /\ UNCHANGED <<params, other, run, df, found, data, cleaned_data, log, err>>

\* Lines 281-286, 318-325: the write of the batch succeeds; the loop pauses
\* and goes to the next batch, or load returns after the last one.
BatchWriteOk ==
    /\ pc = "BATCH_WRITE"
    /\ total_records > 0
    /\ store' = Written(operation, batch)
    /\ calls' = calls \o <<Call(operation, table_name, batch, "ok", <<>>, batch_num)>>
                      \o (IF batch_num < total_batches
                          THEN <<Call("sleep", "pause", <<>>, "ok", <<>>, PAUSE_MS)>>
                          ELSE <<>>)
    /\ IF batch_num < total_batches
       THEN /\ i' = i + BATCH_SIZE
            /\ UNCHANGED pc
       ELSE /\ pc' = "DONE"
            /\ UNCHANGED i
    /\ attempt' = 0
    /\ UNCHANGED <<params, other, run, df, found, data, cleaned_data, log, err>>

\* Variant of BatchWriteError whose last attempt is the second one.
BatchWriteErrorOneRetry ==
    /\ pc = "BATCH_WRITE"
    /\ total_records > 0
    /\ \E e \in StoreErrors :
        LET is_last_attempt == (attempt = MAX_RETRIES - 2)
            wr == Call(operation, table_name, batch, e, <<>>, batch_num)
        IN IF _is_transient_error(e) /\ ~is_last_attempt
           THEN /\ calls' = calls \o <<wr, Call("sleep", "backoff", <<>>, "ok", <<>>,
                                                1000 * RetryDelay(attempt))>>
                /\ attempt' = attempt + 1
                /\ UNCHANGED <<pc, i, err>>
           ELSE /\ calls' = Append(calls, wr)
                /\ attempt' = 0
                /\ BatchFailed(e)
    /\ UNCHANGED <<params, other, run, df, found, data, cleaned_data, store, log>>

\* Lines 287-301: the write raises.  A transient error with attempts left
\* sleeps and retries; a transient error on the last attempt and a permanent
\* error are raised out of _execute_with_retry.
BatchWriteError ==
    /\ pc = "BATCH_WRITE"
    /\ total_records > 0
    /\ \E e \in StoreErrors :
        LET is_last_attempt == (attempt = MAX_RETRIES - 1)
            wr == Call(operation, table_name, batch, e, <<>>, batch_num)
        IN IF _is_transient_error(e) /\ ~is_last_attempt
           THEN /\ calls' = calls \o <<wr, Call("sleep", "backoff", <<>>, "ok", <<>>,
                                                1000 * RetryDelay(attempt))>>
                /\ attempt' = attempt + 1
                /\ UNCHANGED <<pc, i, err>>
           ELSE /\ calls' = Append(calls, wr)
                /\ attempt' = 0
                /\ BatchFailed(e)
    /\ UNCHANGED <<params, other, run, df, found, data, cleaned_data, store, log>>

\* --------------------------------------------- record by record (337-346)
\* Variant of InsertRecordOk that writes with the operation of the call.
InsertRecordOkByOperation ==
    /\ pc = "RECORD_BY_RECORD"
    /\ LET rec_clean == SanitizeRecord(data[i + 1])
       IN /\ store' = Written(operation, <<rec_clean>>)
          /\ calls' = Append(calls, Call(operation, table_name, <<rec_clean>>, "ok", <<>>, 0))
    /\ i' = i + 1
    /\ pc' = IF i + 1 = Len(data) THEN "DONE" ELSE "RECORD_BY_RECORD"
    /\ UNCHANGED <<params, other, run, df, attempt, found, data, cleaned_data, log, err>>

\* One record of data, sanitized again, is inserted; after the last one load
\* returns.
InsertRecordOk ==
    /\ pc = "RECORD_BY_RECORD"
    /\ LET rec_clean == SanitizeRecord(data[i + 1])
       IN /\ store' = Written("insert", <<rec_clean>>)
          /\ calls' = Append(calls, Call("insert", table_name, <<rec_clean>>, "ok", <<>>, 0))
    /\ i' = i + 1
    /\ pc' = IF i + 1 = Len(data) THEN "DONE" ELSE "RECORD_BY_RECORD"
    /\ UNCHANGED <<params, other, run, df, attempt, found, data, cleaned_data, log, err>>

\* Variant of InsertRecordError that logs the error and goes on with the next
\* record.
InsertRecordErrorSkipped ==
    /\ pc = "RECORD_BY_RECORD"
    /\ \E e \in StoreErrors :
        LET rec_clean == SanitizeRecord(data[i + 1])
        IN calls' = Append(calls, Call("insert", table_name, <<rec_clean>>, e, <<>>, 0))
    /\ i' = i + 1
    /\ pc' = IF i + 1 = Len(data) THEN "DONE" ELSE "RECORD_BY_RECORD"
    /\ UNCHANGED <<params, other, run, df, attempt, found, data, cleaned_data, store, log, err>>

\* Variant of InsertRecordError that starts the batch loop again.
InsertRecordErrorRebatch ==
    /\ pc = "RECORD_BY_RECORD"
    /\ \E e \in StoreErrors :
        LET rec_clean == SanitizeRecord(data[i + 1])
        IN calls' = Append(calls, Call("insert", table_name, <<rec_clean>>, e, <<>>, 0))
    /\ pc' = "BATCH_WRITE"
    /\ i' = 0
    /\ UNCHANGED <<params, other, run, df, attempt, found, data, cleaned_data, store, log, err>>

\* The insert raises: the error is raised to the caller at once (line 346).
InsertRecordError ==
    /\ pc = "RECORD_BY_RECORD"
    /\ \E e \in StoreErrors :
        LET rec_clean == SanitizeRecord(data[i + 1])
        IN /\ calls' = Append(calls, Call("insert", table_name, <<rec_clean>>, e, <<>>, 0))
           /\ err' = e
    /\ pc' = "FAILED"
    /\ UNCHANGED <<params, other, run, df, i, attempt, found, data, cleaned_data, store, log>>

\* ------------------------------------------------------------ specification
Next ==
    \/ Start
    \/ RaiseDuplicates
    \/ CheckDuplicates
    \/ SkipPkBlock
    \/ SelectExistingOk
    \/ SelectExistingError
    \/ SelectStudentsOk
    \/ SelectStudentsError
    \/ RequiredColumnsPass
    \/ RequiredColumnsKeyError
    \/ RequiredColumnsDrop
    \/ SelectMatriculasOk
    \/ SelectMatriculasError
    \/ Sanitize
    \/ BatchLoopEmpty
    \/ BatchWriteOk
    \/ BatchWriteError
    \/ InsertRecordOk
    \/ InsertRecordError

Spec == Init /\ [][Next]_vars

\* ------------------------------------------------- a second, concurrent call
\* A second call of load() on the same table, with the same pk_column and
\* upsert flag and a frame other_df of its own, runs against the same store.
\* Of that call the model keeps the two steps that touch the store: the
\* existing-key check (lines 57-85) and the write of its only batch (lines
\* 310-318); its frame has one row with a non-null key and no null, so
\* duplicates, required columns and sanitizing leave it as it is.  Every
\* request of the second call is stamped with the number of requests the
\* first call had made by then.
OtherCall(kind, payload, result, resp) ==
    [kind |-> kind, payload |-> payload, result |-> result, resp |-> resp,
     at |-> Len(calls)]

\* The frames of the second call: one estudiante with key k.
OtherFrame(k) == <<MakeRow("estudiantes", [codigo_estudiante |-> StrV(k)], 1)>>
OtherFrames == {OtherFrame(1), OtherFrame(MaxLen + 1)}

\* The calls a second call runs next to.
RaceCalls ==
    {Flags("estudiantes", DistinctFrame(len), TRUE, "codigo_estudiante", TRUE,
           FALSE, FALSE, NoList, ups) :
        len \in 1..(MaxLen - 1),
        ups \in BOOLEAN}

\* Lines 63-85 in the second call: the select answers; keys found raise a
\* ValueError that the handler of line 84 swallows, so the call goes on to
\* its write either way.
OtherSelectExistingOk ==
    /\ other_pc = "pk_exists"
    /\ LET keys == UniqueKeys(other_df, pk_column)
           part == SelectIn(store[table_name], pk_column, keys)
       IN other_calls' = Append(other_calls, OtherCall("select", keys, "ok", part))
    /\ other_pc' = "BATCH_WRITE"
    /\ UNCHANGED <<params, run, other_df, df, pc, i, attempt, found, data, cleaned_data,
                   store, calls, log, err>>

\* The select of the second call raises: logged, the call goes on.
OtherSelectExistingError ==
    /\ other_pc = "pk_exists"
    /\ other_calls' = Append(other_calls,
            OtherCall("select", UniqueKeys(other_df, pk_column), "error", <<>>))
    /\ other_pc' = "BATCH_WRITE"
    /\ UNCHANGED <<params, run, other_df, df, pc, i, attempt, found, data, cleaned_data,
                   store, calls, log, err>>

\* Lines 310-318 in the second call: its batch is written.
OtherBatchWriteOk ==
    /\ other_pc = "BATCH_WRITE"
    /\ other_calls' = Append(other_calls,
            OtherCall(operation, SanitizeAll(other_df), "ok", <<>>))
    /\ store' = Written(operation, SanitizeAll(other_df))
    /\ other_pc' = "DONE"
    /\ UNCHANGED <<params, run, other_df, df, pc, i, attempt, found, data, cleaned_data,
                   calls, log, err>>

\* The write of the second call fails with an error that is not transient; the
\* second call runs with abort_on_error and raises.
OtherBatchWriteError ==
    /\ other_pc = "BATCH_WRITE"
    /\ other_calls' = Append(other_calls,
            OtherCall(operation, SanitizeAll(other_df), "permission denied", <<>>))
    /\ other_pc' = "FAILED"
    /\ UNCHANGED <<params, run, other_df, df, pc, i, attempt, found, data, cleaned_data,
                   store, calls, log, err>>

\* The small calls of LoadCalls run alone; the calls of RaceCalls run next to
\* a second call that is about to check its keys.
RaceInit ==
    \/ InitFrom({c \in LoadCalls : Len(c.df) <= MaxLen})
    \/ /\ LoadInit(RaceCalls)
       /\ other_pc = "pk_exists"
       /\ other_df \in OtherFrames
       /\ other_calls = <<>>
       /\ PipelineIdle

RaceNext ==
    \/ Next
    \/ OtherSelectExistingOk
    \/ OtherSelectExistingError
    \/ OtherBatchWriteOk
    \/ OtherBatchWriteError

RaceSpec == RaceInit /\ [][RaceNext]_vars

\* ------------------------------------------------ run_pipeline (pipeline.py)
\* One run of run_pipeline: the four tables are processed in the order of
\* PipelineOrder; for each, the sheet is extracted and transformed, and if the
\* resulting frame is not empty load() is called and the run waits for it.
\* load() is taken by its two outcomes: it returns or it raises.  loads is the
\* list of the calls of load() the run has issued.
PipelineOrder == <<"cursos", "estudiantes", "matriculas", "pagos">>

StageOf(tbl) == CHOOSE n \in 1..Len(PipelineOrder) : PipelineOrder[n] = tbl

\* The stage after tbl.
NextStage(tbl) ==
    IF StageOf(tbl) < Len(PipelineOrder) THEN PipelineOrder[StageOf(tbl) + 1]
    ELSE "COMPLETED"

\* The arguments of the call of load() for tbl (lines 71, 97, 151, 233).
PipelineLoad(tbl, records) ==
    [table |-> tbl,
     upsert |-> tbl \in {"cursos", "estudiantes"},
     pk_column |-> CASE tbl = "cursos" -> "codigo_curso"
                     [] tbl = "estudiantes" -> "codigo_estudiante"
                     [] tbl = "matriculas" -> "codigo_matricula"
                     [] tbl = "pagos" -> NoColumn,
     records |-> records,
     status |-> "running"]

Loading == loads # <<>> /\ loads[Len(loads)].status = "running"

AtStage == pipeline_pc \in Range(PipelineOrder) /\ ~Loading

\* An extract or a transform of the stage raises: nothing catches it.
ExtractRaises ==
    /\ AtStage
    /\ pipeline_pc' = "ABORTED"
    /\ UNCHANGED <<params, other, loads, df, pc, i, attempt, found, data, cleaned_data,
                   store, calls, log, err>>

\* The frame of the stage is empty: no load, on to the next stage.
SkipLoad ==
    /\ AtStage
    /\ pipeline_pc' = NextStage(pipeline_pc)
    /\ UNCHANGED <<params, other, loads, df, pc, i, attempt, found, data, cleaned_data,
                   store, calls, log, err>>

\* The frame of the stage has records: load() is called.
IssueLoad ==
    /\ AtStage
    /\ \E records \in 1..MaxLen :
          loads' = Append(loads, PipelineLoad(pipeline_pc, records))
    /\ UNCHANGED <<params, other, pipeline_pc, df, pc, i, attempt, found, data,
                   cleaned_data, store, calls, log, err>>

\* Variant of LoadRaises that logs the error and goes on with the next table.
LoadRaisesContinues ==
    /\ Loading
    /\ loads' = [loads EXCEPT ![Len(loads)].status = "raised"]
    /\ pipeline_pc' = NextStage(pipeline_pc)
    /\ UNCHANGED <<params, other, df, pc, i, attempt, found, data, cleaned_data,
                   store, calls, log, err>>

\* load() returns: on to the next stage.
LoadReturns ==
    /\ Loading
    /\ loads' = [loads EXCEPT ![Len(loads)].status = "returned"]
    /\ pipeline_pc' = NextStage(pipeline_pc)
    /\ UNCHANGED <<params, other, df, pc, i, attempt, found, data, cleaned_data,
                   store, calls, log, err>>

\* load() raises: the handler logs the error and raises it again.
LoadRaises ==
    /\ Loading
    /\ loads' = [loads EXCEPT ![Len(loads)].status = "raised"]
    /\ pipeline_pc' = "ABORTED"
    /\ UNCHANGED <<params, other, df, pc, i, attempt, found, data, cleaned_data,
                   store, calls, log, err>>

\* The run starts at the first table; no call of load() is in progress.
PipelineInit ==
    /\ LoadInit({Flags("pagos", <<>>, TRUE, NoColumn, TRUE, FALSE, FALSE, NoList, FALSE)})
    /\ OtherIdle
    /\ pipeline_pc = PipelineOrder[1]
    /\ loads = <<>>

PipelineNext ==
    \/ ExtractRaises
    \/ SkipLoad
    \/ IssueLoad
    \/ LoadReturns
    \/ LoadRaises

PipelineSpec == PipelineInit /\ [][PipelineNext]_vars

\* ---------------------------------------------------- reading the call log
IsWrite(c) == c.kind \in {"insert", "upsert"}
IsBatchWrite(c) == IsWrite(c) /\ c.arg >= 1
IsRecordInsert(c) == c.kind = "insert" /\ c.arg = 0
IsBackoff(c) == c.kind = "sleep" /\ c.table = "backoff"
IsAudit(c) == c.kind \in {"makedirs", "to_csv"}
NoWrite == \A n \in 1..Len(calls) : ~IsWrite(calls[n])

\* The n-th call is a batch write that _execute_with_retry gave up on: it
\* raised and no retry follows.
BatchGaveUp(n) ==
    /\ IsBatchWrite(calls[n])
    /\ calls[n].result # "ok"
    /\ (n = Len(calls) \/ ~IsBackoff(calls[n + 1]))

\* Every record of a payload is a row of the table in the store.
InStore(payload) == \A n \in 1..Len(payload) : payload[n] \in Range(store[table_name])

\* Concatenation of the payloads of the first n calls of cs.
RECURSIVE Payloads(_, _)
Payloads(cs, n) ==
    IF n = 0 THEN <<>> ELSE Payloads(cs, n - 1) \o cs[n].payload

OkBatchWrites == SelectSeq(calls, LAMBDA c : IsBatchWrite(c) /\ c.result = "ok")
OkRecordInserts == SelectSeq(calls, LAMBDA c : IsRecordInsert(c) /\ c.result = "ok")
\* The records the successful single-record inserts carried, in order.
RecordsInserted == [k \in 1..Len(OkRecordInserts) |-> OkRecordInserts[k].payload[1]]

\* ------------------------------------------------------------------ claims

\* C1 (as claimed): when the existing-key select returns a key of the batch
\* that is already in the store, the call fails and issues no store write.
C1_KeyConflictFailsCall ==
    (\E n \in 1..Len(calls) :
        /\ calls[n].kind = "select"
        /\ calls[n].table = table_name
        /\ calls[n].arg = pk_column
        /\ calls[n].result = "ok"
        /\ calls[n].resp # <<>>)
    => (NoWrite /\ pc # "DONE")

\* C2 (as claimed): when a foreign-key select shows a referenced value to be
\* absent from the referenced table and the drop flag of the relation is
\* false, the call fails and issues no store write.
C2_MissingReferenceFailsCall ==
    (\E n \in 1..Len(calls) :
        /\ calls[n].kind = "select"
        /\ calls[n].table # table_name
        /\ calls[n].result = "ok"
        /\ ~(Range(calls[n].payload) \subseteq Range(calls[n].resp))
        /\ \/ table_name = "matriculas" /\ ~drop_missing_students
           \/ table_name = "pagos" /\ ~drop_missing_matriculas)
    => (NoWrite /\ pc # "DONE")

\* C3 (as claimed): when load returns normally, no batch of the call failed
\* unrecoverably.
C3_ReturnMeansNoBatchFailed ==
    pc = "DONE" => \A n \in 1..Len(calls) : ~BatchGaveUp(n)

\* C3 (amended): when load returns normally, either every batch was written
\* successfully (the batches written are exactly the sanitized records, in
\* order), or a batch failed unrecoverably with abort_on_error false and the
\* record-by-record loop then inserted every surviving record successfully.
C3_ReturnMeansAllWritten ==
    pc = "DONE" =>
        \/ /\ \A n \in 1..Len(calls) : ~BatchGaveUp(n)
           /\ Payloads(OkBatchWrites, Len(OkBatchWrites)) = cleaned_data
        \/ /\ ~abort_on_error
           /\ \E n \in 1..Len(calls) : BatchGaveUp(n)
           /\ RecordsInserted = SanitizeAll(data)
           /\ \A n \in 1..Len(calls) : IsRecordInsert(calls[n]) => calls[n].result = "ok"

\* C3 witness: load has returned after a batch failed and the record-by-record
\* loop went through.
C3_Witness ==
    /\ pc = "DONE"
    /\ ~abort_on_error
    /\ \E n \in 1..Len(calls) : BatchGaveUp(n)
    /\ Len(OkRecordInserts) >= 2

\* The position in df_input of a row (its rest column carries it).
Position(row) == row[RestColumn(table_name)].v

\* No row was removed by the required-column or foreign-key filters: no audit
\* artifact was attempted.
NoRowFiltered == \A n \in 1..Len(calls) : ~IsAudit(calls[n])

\* The positions of df_input that hold the last occurrence of their key.
LastOccurrences ==
    {n \in 1..Len(df_input) :
        \A j \in (n + 1)..Len(df_input) : df_input[j][pk_column] # df_input[n][pk_column]}

\* The records of data that batch number b carries.
BatchSlice(b) == SubSeq(data, (b - 1) * BATCH_SIZE + 1, Min(b * BATCH_SIZE, Len(data)))

\* The call at position n of calls, if it is a write, carries sanitized records
\* of data: a batch write its slice, a record insert one record.
WriteCarriesData(n) ==
    /\ IsBatchWrite(calls[n]) => calls[n].payload = SanitizeAll(BatchSlice(calls[n].arg))
    /\ IsRecordInsert(calls[n]) =>
         \E k \in 1..Len(data) : calls[n].payload = <<SanitizeRecord(data[k])>>

\* C4: with a usable pk_column, dedupe_df true and no row removed by a filter,
\* the records submitted to the store are, per distinct key, the last
\* occurrence of the key in the input, in input order.  When the write stage
\* starts, data holds exactly the rows at the last-occurrence positions of the
\* input, unchanged and at increasing positions, one per key; data does not
\* change while writing; every write carries sanitized records of data (a step
\* adds at most two calls, so the last two are the new ones); and a call that
\* returns without a failed batch has written all of data.
C4_DedupeKeepsLast ==
    /\ [](  (/\ PkUsable /\ dedupe_df /\ NoRowFiltered
             /\ pc = "BATCH_WRITE" /\ i = 0 /\ attempt = 0)
            => /\ {Position(data[n]) : n \in 1..Len(data)} = LastOccurrences
               /\ \A n \in 1..Len(data) : data[n] = df_input[Position(data[n])]
               /\ \A n \in 1..(Len(data) - 1) : Position(data[n]) < Position(data[n + 1])
               /\ Cardinality({data[n][pk_column] : n \in 1..Len(data)}) = Len(data)
               /\ Cardinality({df_input[n][pk_column] : n \in 1..Len(df_input)}) = Len(data))
    /\ [][(pc \in {"BATCH_WRITE", "RECORD_BY_RECORD"}) => (data' = data)]_vars
    /\ [](  (PkUsable /\ dedupe_df /\ NoRowFiltered)
            => /\ \A n \in (Len(calls) - 1)..Len(calls) : n >= 1 => WriteCarriesData(n)
               /\ (pc = "DONE" /\ \A n \in 1..Len(calls) : ~BatchGaveUp(n))
                    => Payloads(OkBatchWrites, Len(OkBatchWrites)) = SanitizeAll(data))

\* C4 witness: a returned call whose input had a duplicate key that was not
\* the last row, so that dropping and keeping order both happened.
C4_Witness ==
    /\ pc = "DONE"
    /\ PkUsable /\ dedupe_df /\ NoRowFiltered
    /\ Len(df_input) = 3
    /\ df_input[1][pk_column] = df_input[3][pk_column]
    /\ df_input[2][pk_column] # df_input[3][pk_column]
    /\ Len(OkBatchWrites) = 1
    /\ Len(OkBatchWrites[1].payload) = 2

\* C5: with a usable pk_column, two records of the input sharing a key and
\* dedupe_df false, load raises the validation error and issues no store call
\* and no audit file operation.
C5_DuplicatesRaiseBeforeAnyCall ==
    (/\ PkUsable
     /\ ~dedupe_df
     /\ \E n, j \in 1..Len(df_input) :
            n # j /\ df_input[n][pk_column] = df_input[j][pk_column])
    => /\ calls = <<>>
       /\ store = InitialStore
       /\ pc \in {"PENDING", "dedupe", "FAILED"}
       /\ pc = "FAILED" => err = "ValueError: duplicados en DataFrame"

\* C5 witness: load has raised on a duplicate key that is not adjacent.
C5_Witness ==
    /\ pc = "FAILED"
    /\ err = "ValueError: duplicados en DataFrame"
    /\ Len(df_input) = 3
    /\ df_input[1][pk_column] = df_input[3][pk_column]
    /\ df_input[1][pk_column] # df_input[2][pk_column]

\* C6 (as claimed, for a call whose foreign-key select answered): in a load of
\* pagos with drop_missing_matriculas true, no record whose codigo_matricula is
\* absent from matriculas is in a store write.
C6_MissingMatriculasNeverWritten ==
    (/\ table_name = "pagos"
     /\ drop_missing_matriculas
     /\ \E n \in 1..Len(calls) :
            calls[n].kind = "select" /\ calls[n].table = "matriculas" /\ calls[n].result = "ok")
    => \A n \in 1..Len(calls) : IsWrite(calls[n]) =>
          \A k \in 1..Len(calls[n].payload) :
              LET ref == calls[n].payload[k]["codigo_matricula"]
              IN ref = None
                 \/ \E m \in 1..Len(store["matriculas"]) :
                        store["matriculas"][m]["codigo_matricula"] = ref

\* C7: when a batch write fails unrecoverably and abort_on_error is true, the
\* failing call is the last thing the call does (no later batch, no record
\* insert, no sleep), load raises that error, and every batch committed before
\* it is still in the store.
C7_AbortStopsAtFailure ==
    \A n \in 1..Len(calls) :
        (abort_on_error /\ BatchGaveUp(n))
        => /\ n = Len(calls)
           /\ pc = "FAILED"
           /\ err = calls[n].result
           /\ \A m \in 1..(n - 1) :
                (IsBatchWrite(calls[m]) /\ calls[m].result = "ok") => InStore(calls[m].payload)

\* C7 witness: the second batch failed after the first was committed, and
\* load has raised.
C7_Witness ==
    /\ abort_on_error
    /\ pc = "FAILED"
    /\ Len(OkBatchWrites) = 1
    /\ InStore(OkBatchWrites[1].payload)
    /\ BatchGaveUp(Len(calls))
    /\ calls[Len(calls)].arg = 2

\* C8: when a batch write fails unrecoverably and abort_on_error is false, what
\* follows is the record-by-record loop: the k-th call after the failure is the
\* insert of the k-th record of data alone, sanitized; every insert but the
\* last succeeded; a failed insert is the last call and load raises its error;
\* load returns only after all records were inserted.
C8_FallbackStopsAtFirstError ==
    \A n \in 1..Len(calls) :
        (~abort_on_error /\ BatchGaveUp(n))
        => /\ pc \in {"RECORD_BY_RECORD", "DONE", "FAILED"}
           /\ Len(calls) - n <= Len(data)
           /\ \A k \in 1..(Len(calls) - n) :
                /\ calls[n + k].kind = "insert"
                /\ calls[n + k].table = table_name
                /\ calls[n + k].arg = 0
                /\ calls[n + k].payload = <<SanitizeRecord(data[k])>>
                /\ (n + k < Len(calls) => calls[n + k].result = "ok")
           /\ pc = "FAILED" <=> (Len(calls) > n /\ calls[Len(calls)].result # "ok")
           /\ pc = "FAILED" => err = calls[Len(calls)].result
           /\ pc = "DONE" <=> (Len(calls) - n = Len(data) /\ calls[Len(calls)].result = "ok")

\* C8 witness: the loop inserted a record and failed on the next one.
C8_Witness ==
    /\ ~abort_on_error
    /\ pc = "FAILED"
    /\ Len(OkRecordInserts) = 2
    /\ Len(data) = 3

\* The batch writes of batch b, and the backoff sleeps made while b was the
\* batch being written.
AttemptsOf(b) == {m \in 1..Len(calls) : IsBatchWrite(calls[m]) /\ calls[m].arg = b}
BackoffsOf(b) ==
    {m \in 1..Len(calls) :
        /\ IsBackoff(calls[m])
        /\ \E j \in AttemptsOf(b) : j < m
        /\ \A j \in 1..m : IsBatchWrite(calls[j]) => calls[j].arg <= b}
Nth(S, k) == CHOOSE m \in S : Cardinality({j \in S : j <= m}) = k
Batches == 1..((Len(cleaned_data) + BATCH_SIZE - 1) \div BATCH_SIZE)

\* C9: a batch whose first two attempts failed with a transient error gets a
\* third attempt (the call has not given up on it); when that attempt succeeds
\* the batch is in the store, the call has not failed on this batch, and the
\* batch has exactly two backoff sleeps, both before the third attempt.
C9_ThirdAttemptCommits ==
    \A b \in Batches :
        LET A == AttemptsOf(b) IN
        (/\ Cardinality(A) >= 2
         /\ calls[Nth(A, 1)].result = "503 Service Unavailable"
         /\ calls[Nth(A, 2)].result = "503 Service Unavailable")
        => IF Cardinality(A) = 2
           THEN /\ pc = "BATCH_WRITE"
                /\ batch_num = b
                /\ Cardinality(BackoffsOf(b)) = 2
                /\ IsBackoff(calls[Len(calls)])
           ELSE /\ Cardinality(A) = 3
                /\ calls[Nth(A, 3)].result = "ok" =>
                    /\ InStore(calls[Nth(A, 3)].payload)
                    /\ Cardinality(BackoffsOf(b)) = 2
                    /\ \A m \in BackoffsOf(b) : Nth(A, 1) < m /\ m < Nth(A, 3)
                    /\ pc = "FAILED" => Len(calls) \notin A
                    /\ Nth(A, 3) = Len(calls) => pc = "DONE"

\* C9 witness: a batch was committed by its third attempt.
C9_Witness ==
    /\ Len(calls) = 5
    /\ Cardinality(AttemptsOf(1)) = 3
    /\ calls[1].result = "503 Service Unavailable"
    /\ calls[3].result = "503 Service Unavailable"
    /\ calls[5].result = "ok"
    /\ IsBatchWrite(calls[5])

BatchWrites == SelectSeq(calls, IsBatchWrite)
\* No store write of the call has failed.
NoWriteFailed == \A n \in 1..Len(calls) : IsWrite(calls[n]) => calls[n].result = "ok"

\* C11: in a run with no failed write, the k-th batch write is the write of
\* batch k and carries the k-th slice of 100 sanitized records; when load has
\* returned, for N sanitized records there are exactly ceil(N/100) batch
\* writes, all successful, every one but the last of 100 records, their
\* concatenation is the sanitized record sequence, and no single-record insert
\* was made.
C11_BatchesPartitionRecords ==
    NoWriteFailed =>
        LET N == Len(cleaned_data)
            W == BatchWrites
        IN /\ \A k \in 1..Len(W) :
                /\ W[k].arg = k
                /\ W[k].payload = SubSeq(cleaned_data, 100 * (k - 1) + 1, Min(100 * k, N))
           /\ pc = "DONE" =>
                /\ Len(W) = (N + 99) \div 100
                /\ \A k \in 1..(Len(W) - 1) : Len(W[k].payload) = 100
                /\ \A k \in 1..Len(W) : Len(W[k].payload) \in 1..100
                /\ Payloads(W, Len(W)) = cleaned_data
                /\ \A n \in 1..Len(calls) : ~IsRecordInsert(calls[n])

\* C11 witness: 250 records were written in three batches of 100, 100 and 50.
C11_Witness ==
    /\ pc = "DONE"
    /\ NoWriteFailed
    /\ Len(cleaned_data) = 250
    /\ Len(BatchWrites) = 3
    /\ Len(BatchWrites[1].payload) = 100
    /\ Len(BatchWrites[2].payload) = 100
    /\ Len(BatchWrites[3].payload) = 50

\* Calls of more than one batch that skip the primary-key block.
UnkeyedCalls ==
    {Flags("estudiantes", DistinctFrame(len), abort, NoColumn, TRUE,
           FALSE, FALSE, NoList, FALSE) :
        len \in BigSizes,
        abort \in BOOLEAN}

\* The calls the progress of load is checked on: those of LoadCalls with a
\* small frame, and the unkeyed calls of more than one batch.
FairCalls == {c \in LoadCalls : Len(c.df) <= MaxLen} \cup UnkeyedCalls

\* The call runs to completion: a step of load that can be taken is taken
\* (every store request, file operation and sleep returns).
FairSpec == InitFrom(FairCalls) /\ [][Next]_vars /\ WF_vars(Next)

\* The state of the call's state machine that a position of the code is in.
Phase(p) ==
    IF p \in {"dedupe", "pk_exists", "fk_students", "required", "fk_pagos"}
    THEN "INTEGRITY_CHECK" ELSE p

Transitions ==
    {<<"PENDING", "INTEGRITY_CHECK">>,
     <<"INTEGRITY_CHECK", "FAILED">>, <<"INTEGRITY_CHECK", "SANITIZE">>,
     <<"SANITIZE", "BATCH_WRITE">>,
     <<"BATCH_WRITE", "DONE">>, <<"BATCH_WRITE", "FAILED">>,
     <<"BATCH_WRITE", "RECORD_BY_RECORD">>,
     <<"RECORD_BY_RECORD", "DONE">>, <<"RECORD_BY_RECORD", "FAILED">>}

\* C12: every change of state of a call is one of the transitions PENDING ->
\* INTEGRITY_CHECK -> {FAILED | SANITIZE} -> BATCH_WRITE -> {DONE | FAILED |
\* RECORD_BY_RECORD} -> {DONE | FAILED}; BATCH_WRITE goes to FAILED only with
\* abort_on_error and to RECORD_BY_RECORD only without it; in DONE and FAILED
\* nothing happens any more (no call is added, the store is not touched); and
\* a call that keeps running eventually is in DONE or FAILED.
C12_StateMachine ==
    /\ [][/\ Phase(pc') # Phase(pc) => <<Phase(pc), Phase(pc')>> \in Transitions
          /\ (pc = "BATCH_WRITE" /\ pc' = "FAILED") => abort_on_error
          /\ (pc = "BATCH_WRITE" /\ pc' = "RECORD_BY_RECORD") => ~abort_on_error
          /\ pc \in {"DONE", "FAILED"} => (pc' = pc /\ calls' = calls /\ store' = store)]_vars
    /\ <>(pc \in {"DONE", "FAILED"})

\* C12 witness: a call went through every state down to RECORD_BY_RECORD and
\* failed there, after store reads, batch attempts and a record insert.
C12_Witness ==
    /\ pc = "FAILED"
    /\ ~abort_on_error
    /\ \E n \in 1..Len(calls) : calls[n].kind = "select"
    /\ \E n \in 1..Len(calls) : BatchGaveUp(n)
    /\ Len(OkRecordInserts) >= 1
    /\ IsRecordInsert(calls[Len(calls)])
    /\ calls[Len(calls)].result # "ok"

\* A value that is NaN or infinite, or an array or list that has such an
\* element.
HoldsNonFinite(v) ==
    \/ v.t \in {"nan", "inf"}
    \/ /\ v.t \in {"ndarray", "list"}
       /\ \E k \in 1..Len(v.v) : v.v[k].t \in {"nan", "inf"}

\* C13 (as claimed): no record in the payload of a store write, batch or
\* single record, holds a NaN or an infinite value, as a value of a column or
\* as an element of an array-like value of a column.
C13_NoNonFiniteValueWritten ==
    \A n \in 1..Len(calls) :
        IsWrite(calls[n]) =>
            \A k \in 1..Len(calls[n].payload) :
                \A c \in DOMAIN calls[n].payload[k] :
                    ~HoldsNonFinite(calls[n].payload[k][c])

\* C14 (as claimed): the sanitized record holds null where the record holds
\* None, NaN, +Infinity or -Infinity, the same float where it holds a finite
\* float, and the same boolean where it holds a boolean.
C14_SanitizerKeepsFloatAndBool ==
    \A n \in 1..Len(cleaned_data) :
        \A c \in DOMAIN data[n] :
            LET v == data[n][c]
                w == cleaned_data[n][c]
            IN /\ v.t \in {"None", "nan", "inf"} => w = None
               /\ v.t = "float" => w = v
               /\ v.t = "bool" => w = v

\* C15 (as claimed): a failed audit file operation (creating the output
\* directory or writing the CSV) does not make the call fail: a call in which
\* one failed and that has raised has raised in the write stage, on a store
\* write.
C15_AuditFailureNeverFailsCall ==
    (\E n \in 1..Len(calls) : IsAudit(calls[n]) /\ calls[n].result = "error")
    => (pc = "FAILED" =>
          \E n \in 1..Len(calls) : IsWrite(calls[n]) /\ calls[n].result = err)

\* The step adds one call, a store read that failed.
ReadFailedStep ==
    /\ Len(calls') = Len(calls) + 1
    /\ calls'[Len(calls')].kind = "select"
    /\ calls'[Len(calls')].result = "error"

\* What the in-frame duplicate step leaves of the input.
Deduplicated ==
    IF PkUsable /\ HasDuplicates(df_input, pk_column)
    THEN DropDuplicatesLast(df_input, pk_column) ELSE df_input

\* C16: a store read of the existing-key check or of a foreign-key check that
\* fails leaves the check skipped.  The step of the failed read removes no row,
\* raises nothing and goes on to the stage after the check, without a further
\* read of that check; and a call whose every read failed and that dropped no
\* row in another step comes to the write stage with the rows the duplicate
\* step left, all of them.
C16_ReadFailureSkipsCheck ==
    /\ [][ReadFailedStep =>
            /\ df' = df
            /\ err' = "none"
            /\ store' = store
            /\ pc' = (IF pc = "pk_exists" THEN AfterPkCheck(df)
                      ELSE IF pc = "fk_students" THEN "required"
                      ELSE "SANITIZE")]_vars
    /\ []((/\ pc = "BATCH_WRITE" /\ i = 0 /\ attempt = 0
           /\ NoRowFiltered
           /\ \E n \in 1..Len(calls) : calls[n].kind = "select"
           /\ \A n \in 1..Len(calls) : calls[n].kind = "select" => calls[n].result = "error")
          => data = Deduplicated)

\* C16 witness: a load of pagos with drop_missing_matriculas whose foreign-key
\* read failed has returned after writing a record that refers to a matricula
\* the store does not have.
C16_Witness ==
    /\ pc = "DONE"
    /\ table_name = "pagos"
    /\ drop_missing_matriculas
    /\ \E n \in 1..Len(calls) :
          /\ calls[n].kind = "select"
          /\ calls[n].table = "matriculas"
          /\ calls[n].result = "error"
    /\ \E n \in 1..Len(calls) :
          /\ IsWrite(calls[n])
          /\ calls[n].result = "ok"
          /\ \E k \in 1..Len(calls[n].payload) :
                calls[n].payload[k]["codigo_matricula"] = StrV(1)

\* The case of C17: an upsert of estudiantes keyed on codigo_estudiante, with
\* pairwise distinct keys none of which is in the store when the call starts.
UpsertOfNewStudents ==
    /\ table_name = "estudiantes"
    /\ upsert
    /\ pk_column = "codigo_estudiante"
    /\ ~HasDuplicates(df_input, "codigo_estudiante")
    /\ \A n \in 1..Len(df_input) :
          \A m \in 1..Len(InitialStore["estudiantes"]) :
              InitialStore["estudiantes"][m]["codigo_estudiante"]
                  # df_input[n]["codigo_estudiante"]

\* What C17 says of a finished call: one store write, an upsert of all the
\* sanitized records in input order; no insert; no audit file.
OneUpsertOfAll ==
    /\ Cardinality({n \in 1..Len(calls) : IsWrite(calls[n])}) = 1
    /\ \A n \in 1..Len(calls) :
          /\ calls[n].kind # "insert"
          /\ ~IsAudit(calls[n])
          /\ calls[n].kind = "upsert" => calls[n].payload = SanitizeAll(df_input)

RecordsWritten ==
    UNION {Range(calls[n].payload) :
             n \in {m \in 1..Len(calls) : IsWrite(calls[m]) /\ calls[m].result = "ok"}}

\* C18 (as claimed): the required-column filter runs before the in-frame
\* dedupe, so dedupe keeps the last occurrence of a key among the records that
\* have their required columns: a record with a key and its required columns,
\* all later records of whose key have a null required column, is written by a
\* call that drops no row for a missing reference and returns with no failed
\* write.
C18_DedupeAfterRequiredFilter ==
    (/\ PkUsable
     /\ dedupe_df
     /\ ColsRequired # <<>>
     /\ Range(ColsRequired) \subseteq Columns(table_name)
     /\ ~drop_missing_students
     /\ ~drop_missing_matriculas
     /\ pc = "DONE"
     /\ NoWriteFailed)
    => \A n \in 1..Len(df_input) :
          (/\ ~HasNullRequired(df_input[n])
           /\ ~IsNa(df_input[n][pk_column])
           /\ \A j \in (n + 1)..Len(df_input) :
                 df_input[j][pk_column] = df_input[n][pk_column]
                     => HasNullRequired(df_input[j]))
          => SanitizeRecord(df_input[n]) \in RecordsWritten

\* The step is the one of the required-column filter and removes rows.
RequiredFilterDrops == pc = "required" /\ Len(df') < Len(df)

AttemptOf(b, k) == Nth(AttemptsOf(b), k)

\* C20: a batch has at most MAX_RETRIES = 3 write attempts.  Its k-th attempt,
\* when it fails with a transient error, is followed by a backoff sleep of
\* RETRY_DELAY_BASE ** k seconds for k < 3, whatever happened to the batches
\* before it (the count of attempts starts anew with every batch), and by no
\* sleep and no further attempt for k = 3: the call has given up on the batch,
\* which with abort_on_error is the failure load raises and otherwise is
\* followed by single-record inserts only.
C20_AtMostThreeAttempts ==
    \A b \in Batches :
        LET A == AttemptsOf(b) IN
        /\ Cardinality(A) <= 3
        /\ \A k \in 1..Cardinality(A) :
              LET n == AttemptOf(b, k) IN
              calls[n].result = "503 Service Unavailable" =>
                 IF k < 3
                 THEN /\ n < Len(calls)
                      /\ IsBackoff(calls[n + 1])
                      /\ calls[n + 1].arg = 1000 * Pow(2, k)
                 ELSE /\ BatchGaveUp(n)
                      /\ \A m \in (n + 1)..Len(calls) : IsRecordInsert(calls[m])
                      /\ Cardinality(BackoffsOf(b)) = 2
                      /\ pc \in {"FAILED", "RECORD_BY_RECORD", "DONE"}
                      /\ abort_on_error =>
                            (pc = "FAILED" /\ n = Len(calls) /\ err = calls[n].result)

\* C20 witness: the first batch needed three attempts, and the second batch
\* failed three times with a transient error and load has raised.
C20_Witness ==
    /\ pc = "FAILED"
    /\ abort_on_error
    /\ Cardinality(AttemptsOf(1)) = 3
    /\ Cardinality(AttemptsOf(2)) = 3
    /\ calls[AttemptOf(1, 3)].result = "ok"
    /\ \A k \in 1..3 : calls[AttemptOf(2, k)].result = "503 Service Unavailable"
    /\ Cardinality(BackoffsOf(2)) = 2

\* The number of attempts of the batch of the write at position n, up to n.
AttemptNumber(n) ==
    Cardinality({m \in 1..n : IsBatchWrite(calls[m]) /\ calls[m].arg = calls[n].arg})

\* C21: every backoff sleep follows at once a batch write that failed with a
\* transient error and had attempts left, and lasts 2^k seconds when that write
\* was the k-th attempt of its batch: 2 s after the first failed attempt, 4 s
\* after the second; two sleeps of one batch are 2 s then 4 s, strictly
\* increasing; and a transient failure with attempts left is always followed
\* by its sleep.
C21_BackoffDoubles ==
    /\ \A n \in 1..Len(calls) :
          IsBackoff(calls[n]) =>
             /\ n >= 2
             /\ IsBatchWrite(calls[n - 1])
             /\ calls[n - 1].result = "503 Service Unavailable"
             /\ AttemptNumber(n - 1) \in {1, 2}
             /\ calls[n].arg = 1000 * Pow(2, AttemptNumber(n - 1))
             /\ (n >= 4 /\ IsBackoff(calls[n - 2]))
                   => (calls[n - 2].arg = 2000 /\ calls[n].arg = 4000)
    /\ \A n \in 1..Len(calls) :
          (/\ IsBatchWrite(calls[n])
           /\ calls[n].result = "503 Service Unavailable"
           /\ AttemptNumber(n) < 3)
          => (n < Len(calls) /\ IsBackoff(calls[n + 1]))

\* C21 witness: the second batch was retried twice, after waits of 2 s and 4 s.
C21_Witness ==
    /\ Len(calls) >= 6
    /\ \E n \in 3..(Len(calls) - 3) :
          /\ IsBatchWrite(calls[n]) /\ calls[n].arg = 2
          /\ IsBackoff(calls[n + 1]) /\ calls[n + 1].arg = 2000
          /\ IsBatchWrite(calls[n + 2]) /\ calls[n + 2].arg = 2
          /\ IsBackoff(calls[n + 3]) /\ calls[n + 3].arg = 4000

\* How many rows of the table in the store equal rec.
CopiesInStore(rec) ==
    Cardinality({m \in 1..Len(store[table_name]) : store[table_name][m] = rec})

\* The position of the call on which the batch loop gave up (0 if none).
GaveUpAt ==
    IF \E n \in 1..Len(calls) : BatchGaveUp(n)
    THEN CHOOSE n \in 1..Len(calls) : BatchGaveUp(n)
    ELSE 0

\* C23: when the batch loop gave up on batch b >= 2 and abort_on_error is
\* false, the record-by-record loop starts at the first record of data, not at
\* the first record of batch b: its j-th insert carries record j, which for
\* j <= 100 * (b - 1) is a record an earlier batch of the call has committed,
\* at position j of the concatenated committed batches; when the insert
\* succeeds the store holds that record twice.  (Every insert is the last call
\* of some state.)
C23_FallbackRewritesCommitted ==
    LET n == GaveUpAt
        j == Len(calls) - n
    IN (/\ n >= 1
        /\ ~abort_on_error
        /\ calls[n].arg >= 2
        /\ j >= 1)
       => /\ IsRecordInsert(calls[Len(calls)])
          /\ j <= Len(data)
          /\ calls[Len(calls)].payload = <<SanitizeRecord(data[j])>>
          /\ j <= 100 * (calls[n].arg - 1) =>
                /\ Len(OkBatchWrites) = calls[n].arg - 1
                /\ OkBatchWrites[((j - 1) \div 100) + 1].payload[((j - 1) % 100) + 1]
                      = calls[Len(calls)].payload[1]
                /\ calls[Len(calls)].result = "ok"
                      => CopiesInStore(calls[Len(calls)].payload[1]) = 2

\* C23 witness: after the first batch of 100 was committed and the second
\* failed, the fallback has inserted all 101 records and load has returned:
\* the 100 records of the first batch are in the store twice.
C23_Witness ==
    /\ pc = "DONE"
    /\ ~abort_on_error
    /\ ~upsert
    /\ Len(data) = 101
    /\ Len(OkBatchWrites) = 1
    /\ Len(OkRecordInserts) = 101
    /\ CopiesInStore(cleaned_data[1]) = 2
    /\ CopiesInStore(cleaned_data[100]) = 2
    /\ CopiesInStore(cleaned_data[101]) = 1

\* C24: after the batch loop gave up with abort_on_error false, every call is
\* a single-record insert: never an upsert, also when upsert is true, and never
\* a sleep; an insert that fails, with a transient error as with a permanent
\* one, is not tried again: it is the last call, and load raises its error.
C24_FallbackInsertsWithoutRetry ==
    LET n == GaveUpAt
    IN (n >= 1 /\ ~abort_on_error)
       => /\ calls[n].kind = operation
          /\ \A m \in (n + 1)..Len(calls) :
                /\ calls[m].kind = "insert"
                /\ calls[m].arg = 0
                /\ Len(calls[m].payload) = 1
                /\ calls[m].result # "ok" =>
                      /\ m = Len(calls)
                      /\ pc = "FAILED"
                      /\ err = calls[m].result
          /\ pc = "RECORD_BY_RECORD" =>
                (Len(calls) > n => calls[Len(calls)].result = "ok")

\* C24 witness: a call with upsert true whose upsert batch failed has inserted
\* one record and raised on a transient error of the insert of the next.
C24_Witness ==
    /\ upsert
    /\ ~abort_on_error
    /\ pc = "FAILED"
    /\ err = "503 Service Unavailable"
    /\ GaveUpAt >= 1
    /\ calls[GaveUpAt].kind = "upsert"
    /\ Len(calls) = GaveUpAt + 2
    /\ calls[Len(calls) - 1].kind = "insert"
    /\ calls[Len(calls) - 1].result = "ok"
    /\ calls[Len(calls)].kind = "insert"
    /\ calls[Len(calls)].result = "503 Service Unavailable"

\* The foreign-key reads of the call that answered, as positions of calls.
ParentReads ==
    {n \in 1..Len(calls) :
        calls[n].kind = "select" /\ calls[n].table # table_name /\ calls[n].result = "ok"}

\* The referenced values the read at position n showed to be missing.
MissingAt(n) == Range(calls[n].payload) \ Range(calls[n].resp)

\* An audit file operation of a foreign-key drop path has failed.
FkAuditFailed ==
    \E n \in 1..Len(calls) :
        /\ IsAudit(calls[n])
        /\ calls[n].table \in {"matriculas_missing_students", "pagos_missing_matriculas"}
        /\ calls[n].result = "error"

\* What one step taken in a foreign-key stage may do to df: rows leave df only
\* in a step whose last call is the successful write of the audit file of
\* exactly the rows that refer to a missing value, and a step in which an
\* audit file operation fails leaves df as it is, raises nothing (the error is
\* logged) and goes on to the next stage.
FkStageStep ==
    LET last == calls'[Len(calls')]
        read == Len(calls') - 2
        col == IF pc = "fk_students" THEN "codigo_estudiante" ELSE "codigo_matricula"
        flag == IF pc = "fk_students" THEN drop_missing_students
                ELSE drop_missing_matriculas
        after == IF pc = "fk_students" THEN "required" ELSE "SANITIZE"
    IN /\ (df' # df) =>
            /\ flag
            /\ last.kind = "to_csv"
            /\ last.result = "ok"
            /\ calls'[read].kind = "select"
            /\ calls'[read].result = "ok"
            /\ last.payload =
                 SelectSeq(df, LAMBDA row :
                     row[col] \in Range(calls'[read].payload) \ Range(calls'[read].resp))
            /\ df' =
                 SelectSeq(df, LAMBDA row :
                     row[col] \notin Range(calls'[read].payload) \ Range(calls'[read].resp))
       /\ (Len(calls') > Len(calls) /\ IsAudit(last) /\ last.result = "error") =>
            /\ flag
            /\ df' = df
            /\ err' = "none"
            /\ Len(log') = Len(log) + 1
            /\ pc' = after

\* C25: in a foreign-key stage with the drop flag the rows with a missing
\* reference are removed from df only after the audit file of those rows was
\* written; when the audit file cannot be written the error is swallowed, the
\* rows stay in df, and a call in which that happened has them in data at the
\* write stage and has written them when it returns with no failed write.
C25_DropOnlyAfterAudit ==
    /\ [][(pc \in {"fk_students", "fk_pagos"}) => FkStageStep]_vars
    /\ []((FkAuditFailed /\ pc \in {"BATCH_WRITE", "RECORD_BY_RECORD", "DONE"}) =>
            \A n \in ParentReads :
                /\ MissingAt(n) # {}
                /\ \A k \in MissingAt(n) :
                      /\ \E m \in 1..Len(data) : data[m][calls[n].arg] = k
                      /\ (pc = "DONE" /\ NoWriteFailed) =>
                            \E rec \in RecordsWritten : rec[calls[n].arg] = k)

\* C25 witness: a load of pagos with drop_missing_matriculas true whose audit
\* file could not be written has returned after writing a record that refers
\* to a matricula the store does not have.
C25_Witness ==
    /\ pc = "DONE"
    /\ table_name = "pagos"
    /\ drop_missing_matriculas
    /\ FkAuditFailed
    /\ calls[Len(calls)].kind = "insert"
    /\ calls[Len(calls)].result = "ok"
    /\ \E k \in 1..Len(calls[Len(calls)].payload) :
          calls[Len(calls)].payload[k]["codigo_matricula"] = StrV(1)

\* The reads of the store the call has issued so far, as positions of calls.
Reads == {n \in 1..Len(calls) : calls[n].kind = "select"}

\* C26: without a usable pk_column (none given, or one that is not a column
\* of the records) the call issues no read except the pagos -> matriculas
\* one: a load into matriculas then reads neither matriculas nor estudiantes,
\* writes no audit file of missing students, and every row of df_input that
\* has its required columns, rows referring to missing students included,
\* is in data at the write stage, whatever drop_missing_students says; a load
\* into pagos that reached the sanitizer with a row referring to a matricula
\* has read matriculas, with or without a usable pk_column.
C26_StudentsCheckNeedsPkColumn ==
    /\ ~PkUsable =>
          /\ \A n \in Reads : table_name = "pagos" /\ calls[n].table = "matriculas"
          /\ \A n \in 1..Len(calls) : calls[n].table # "matriculas_missing_students"
          /\ (table_name = "matriculas"
              /\ pc \in {"BATCH_WRITE", "RECORD_BY_RECORD", "DONE"}) =>
                \A m \in 1..Len(df_input) :
                    (\A c \in Range(ColsRequired) : ~IsNa(df_input[m][c]))
                        => \E k \in 1..Len(data) : data[k] = df_input[m]
    /\ (table_name = "pagos"
        /\ pc \in {"SANITIZE", "BATCH_WRITE", "RECORD_BY_RECORD", "DONE"}
        /\ \E m \in 1..Len(df) : ~IsNa(df[m]["codigo_matricula"])) =>
            \E n \in Reads : calls[n].table = "matriculas"

\* C26 witness: a load into matriculas with no pk_column and
\* drop_missing_students true has returned after writing a row whose student
\* the store does not have, without a single read.
C26_Witness ==
    /\ pc = "DONE"
    /\ table_name = "matriculas"
    /\ pk_column = NoColumn
    /\ drop_missing_students
    /\ Reads = {}
    /\ Len(calls) >= 1
    /\ ~(\E r \in Range(store["estudiantes"]) : r["codigo_estudiante"] = StrV(1))
    /\ calls[Len(calls)].result = "ok"
    /\ IsWrite(calls[Len(calls)])
    /\ \E k \in 1..Len(calls[Len(calls)].payload) :
          calls[Len(calls)].payload[k]["codigo_estudiante"] = StrV(1)

\* The keys of the records of a payload.
KeysOf(payload) == {payload[k][pk_column] : k \in 1..Len(payload)}

\* The first call passed its existing-key check on key at request n and wrote
\* key at request m; the second call passed its check on key at its request
\* j and wrote key at its request k.
RaceOn(key, n, m, j, k) ==
    /\ calls[n].kind = "select"
    /\ calls[n].table = table_name
    /\ calls[n].result = "ok"
    /\ key \in Range(calls[n].payload) \ Range(calls[n].resp)
    /\ IsWrite(calls[m])
    /\ calls[m].result = "ok"
    /\ key \in KeysOf(calls[m].payload)
    /\ other_calls[j].kind = "select"
    /\ other_calls[j].result = "ok"
    /\ key \in Range(other_calls[j].payload) \ Range(other_calls[j].resp)
    /\ IsWrite(other_calls[k])
    /\ other_calls[k].result = "ok"
    /\ key \in KeysOf(other_calls[k].payload)

\* The rows of the table of the call that carry key.
StoredWith(key) ==
    {r \in 1..Len(store[table_name]) : store[table_name][r][pk_column] = key}

\* One call at a time: every request of the second call came before the first
\* request of this call, or after its last one so far.
OneCallerAtATime ==
    \/ \A j \in 1..Len(other_calls) : other_calls[j].at = 0
    \/ \A j \in 1..Len(other_calls) : other_calls[j].at = Len(calls)

\* C22: two calls on the same table can both pass the existing-key check on
\* one key and both write it, but only when their requests interleave: the
\* check of each came before the write of the other, which cannot happen
\* with one call at a time.  The store then holds the key twice after two
\* inserts, and once, with neither call told of the conflict, after two
\* upserts.
C22_CheckThenWriteRace ==
    \A n \in 1..Len(calls), m \in 1..Len(calls) :
    \A j \in 1..Len(other_calls), k \in 1..Len(other_calls) :
    \A key \in KeysOf(other_df) :
        RaceOn(key, n, m, j, k) =>
            /\ other_calls[j].at < m
            /\ n <= other_calls[k].at
            /\ ~OneCallerAtATime
            /\ Cardinality(StoredWith(key)) = (IF upsert THEN 1 ELSE 2)
            /\ log = <<>>

\* C22 witness: both calls passed the check on key '1', both inserted it, and
\* the store holds two rows with that key.
C22_Witness ==
    /\ ~upsert
    /\ other_pc = "DONE"
    /\ pc = "DONE"
    /\ \E n \in 1..Len(calls), m \in 1..Len(calls) :
       \E j \in 1..Len(other_calls), k \in 1..Len(other_calls) :
            RaceOn(StrV(1), n, m, j, k)
    /\ Cardinality(StoredWith(StrV(1))) = 2

\* C27: the calls of load() of one run come in the order cursos, estudiantes,
\* matriculas, pagos, cursos and estudiantes as upserts and matriculas and
\* pagos as inserts, each on its key column; every call but the last has
\* returned, so a call is issued only after the one before it returned and
\* pagos only after the load of matriculas of the run, if there is one,
\* returned; a call that raised is the last one and the run is aborted; and an
\* aborted run issues no call.
C27_LoadsInOrder ==
    /\ [](\A k \in 1..Len(loads) :
            /\ loads[k] = [PipelineLoad(loads[k].table, loads[k].records)
                              EXCEPT !.status = loads[k].status]
            /\ loads[k].upsert <=> loads[k].table \in {"cursos", "estudiantes"}
            /\ \A j \in 1..(k - 1) :
                  /\ StageOf(loads[j].table) < StageOf(loads[k].table)
                  /\ loads[j].status = "returned"
            /\ loads[k].status = "running" => pipeline_pc = loads[k].table
            /\ loads[k].status = "raised" => pipeline_pc = "ABORTED")
    /\ [][(pipeline_pc = "ABORTED") => (loads' = loads /\ pipeline_pc' = "ABORTED")]_vars
    /\ [][(Len(loads') > Len(loads)) =>
            /\ Len(loads') = Len(loads) + 1
            /\ loads'[Len(loads')].table = pipeline_pc
            /\ loads'[Len(loads')].status = "running"
            /\ \A j \in 1..Len(loads) : loads[j].status = "returned"]_vars

\* C27 witness: cursos and estudiantes were loaded, the load of matriculas
\* raised, and the run is aborted with no load of pagos.
C27_Witness ==
    /\ pipeline_pc = "ABORTED"
    /\ Len(loads) = 3
    /\ loads[1].table = "cursos" /\ loads[1].status = "returned"
    /\ loads[2].table = "estudiantes" /\ loads[2].status = "returned"
    /\ loads[3].table = "matriculas" /\ loads[3].status = "raised"

====
